---- MODULE Spec2Model ----
(***************************************************************************)
(* copy-products.ts: a one-shot script that copies the categories, the     *)
(* product-category assignments and the product-channel assignments of a   *)
(* BigCommerce store to the channel named by BIGCOMMERCE_CHANNEL_ID.       *)
(*                                                                         *)
(* Two specifications are given.  Spec is the script's run: the top-level  *)
(* pipeline, suspended at each await, against a remote API that answers    *)
(* with any status and any body.  SpecUnit applies each function of the    *)
(* script once to inputs drawn from bounded sets.                          *)
(*                                                                         *)
(* Representation.  A JavaScript string that the script only passes on is  *)
(* a TLA+ string; BIGCOMMERCE_CHANNEL_ID, which parseInt reads character   *)
(* by character, is a sequence of one-character strings.  A value that may *)
(* be undefined is a record [defined, value] or [set, value].  The text    *)
(* JSON.stringify produces for a request body is represented by the value  *)
(* it encodes.                                                             *)
(***************************************************************************)
EXTENDS Integers, Sequences, FiniteSets, TLC

VARIABLES
    env,                          \* process.env, read by the four accessors
    pc,                           \* the await the top-level module is suspended in
    error,                        \* the error that terminated the run
    requests,                     \* every fetch() call made so far, in order
    inflight,                     \* indices of requests whose response has not arrived
    response,                     \* the response handed to the awaiting continuation
    remote,                       \* the writes that have reached the remote store
    newTree,                      \* const { data: newTree }
    categories,                   \* const { data: categories }
    createdCategories,            \* const { data: createdCategories }
    productCategoryAssignments,   \* const { data: productCategoryAssignments }
    categoriesMap,                \* Map category_id -> name
    createdCategoriesMap,         \* Map name -> category_id
    productChannelAssignments,    \* const { data: productChannelAssignments }
    unit                          \* SpecUnit: the function applied, its inputs, its outcome

vars == <<env, pc, error, requests, inflight, response, remote, newTree, categories,
          createdCategories, productCategoryAssignments, categoriesMap,
          createdCategoriesMap, productChannelAssignments, unit>>

runVars == <<pc, error, requests, inflight, response, remote, newTree, categories,
             createdCategories, productCategoryAssignments, categoriesMap,
             createdCategoriesMap, productChannelAssignments>>

-----------------------------------------------------------------------------
(* Bounds of the model *)

MaxLen == 2        \* longest data array in a response body, longest unit input list
MaxChannelLen == 1 \* longest array of channel assignments in a response body of the run
MaxIdLen == 2      \* longest BIGCOMMERCE_CHANNEL_ID value, in characters

SeqsUpTo(S, n) == UNION {[1..k -> S] : k \in 0..n}

-----------------------------------------------------------------------------
(* JavaScript values *)

Undefined == [defined |-> FALSE, value |-> <<>>]
Defined(v) == [defined |-> TRUE, value |-> v]

EnvUnset == [set |-> FALSE, value |-> ""]
EnvValue(s) == [set |-> TRUE, value |-> s]
EnvUnsetChars == [set |-> FALSE, value |-> <<>>]

NaN == [nan |-> TRUE, value |-> 0]
Number(n) == [nan |-> FALSE, value |-> n]

\* !!x for a number: NaN, 0 and -0 are falsy
TruthyNumber(x) == ~x.nan /\ x.value # 0

NoError == [type |-> "", message |-> ""]
AssertionError(msg) == [type |-> "AssertionError", message |-> msg]
PlainError(msg) == [type |-> "Error", message |-> msg]
\* thrown by the runtime: a property read of undefined or null, a rejected fetch
TypeError(msg) == [type |-> "TypeError", message |-> msg]
\* thrown by Response.json() on a body that is not JSON
SyntaxError(msg) == [type |-> "SyntaxError", message |-> msg]

NoValue == <<>>
Threw(err) == [threw |-> TRUE, error |-> err, value |-> NoValue]
Returned(v) == [threw |-> FALSE, error |-> NoError, value |-> v]

\* faulty variant: the defaults spread last, so they replace the caller's headers
SpreadObjectsDefaultsLast(a, b) == a @@ b

\* { ...a, ...b }: a key of b replaces the same key of a
SpreadObjects(a, b) == b @@ a

RECURSIVE MapEntriesFrom(_, _)
MapEntriesFrom(m, entries) ==
    IF entries = <<>> THEN m
    ELSE MapEntriesFrom((Head(entries)[1] :> Head(entries)[2]) @@ m, Tail(entries))

RECURSIVE MapFirstEntriesFrom(_, _)
MapFirstEntriesFrom(m, entries) ==
    IF entries = <<>> THEN m
    ELSE MapFirstEntriesFrom(m @@ (Head(entries)[1] :> Head(entries)[2]), Tail(entries))

\* faulty variant: an entry whose key is already present is ignored
NewMapKeepingFirst(entries) == MapFirstEntriesFrom(<<>>, entries)

\* new Map(entries): each entry is set in order, a later key replaces an earlier one
NewMap(entries) == MapEntriesFrom(<<>>, entries)

\* Map.prototype.get: <<v>> when the key is present, <<>> for undefined
MapGet(m, k) == IF k \in DOMAIN m THEN <<m[k]>> ELSE <<>>

RECURSIVE ArrayJoin(_)
\* Array.prototype.join(",") of numbers
ArrayJoin(xs) ==
    IF xs = <<>> THEN ""
    ELSE IF Len(xs) = 1 THEN ToString(xs[1])
    ELSE ToString(xs[1]) \o "," \o ArrayJoin(Tail(xs))

-----------------------------------------------------------------------------
(* parseInt(string, 10) *)

Digits == <<"0", "1", "2", "3", "4", "5", "6", "7", "8", "9">>

IsDigit(c) == \E d \in 1..10 : Digits[d] = c
DigitValue(c) == (CHOOSE d \in 1..10 : Digits[d] = c) - 1
IsWhiteSpace(c) == c = " "

RECURSIVE TrimStart(_)
TrimStart(s) == IF s # <<>> /\ IsWhiteSpace(Head(s)) THEN TrimStart(Tail(s)) ELSE s

RECURSIVE ParseDigits(_, _, _)
\* the longest prefix of digits of s, read left to right
ParseDigits(s, seen, acc) ==
    IF s # <<>> /\ IsDigit(Head(s))
    THEN ParseDigits(Tail(s), TRUE, 10 * acc + DigitValue(Head(s)))
    ELSE IF seen THEN Number(acc) ELSE NaN

parseInt(str) ==
    LET t == TrimStart(str)
        signed == t # <<>> /\ Head(t) \in {"+", "-"}
        negative == t # <<>> /\ Head(t) = "-"
        parsed == ParseDigits(IF signed THEN Tail(t) ELSE t, FALSE, 0)
    IN  IF parsed.nan THEN NaN
        ELSE Number(IF negative THEN 0 - parsed.value ELSE parsed.value)

-----------------------------------------------------------------------------
(* Configuration accessors *)

DefaultApiOrigin == "https://api.bigcommerce.com"

\* process.env.BIGCOMMERCE_API_ORIGIN || "https://api.bigcommerce.com"
getApiOrigin(e) ==
    IF e.BIGCOMMERCE_API_ORIGIN.set /\ e.BIGCOMMERCE_API_ORIGIN.value # ""
    THEN e.BIGCOMMERCE_API_ORIGIN.value
    ELSE DefaultApiOrigin

getStoreHash(e) ==
    LET storeHash == e.BIGCOMMERCE_STORE_HASH
    IN  IF ~storeHash.set \/ storeHash.value = ""
        THEN Threw(AssertionError("BIGCOMMERCE_STORE_HASH missing in env"))
        ELSE Returned(storeHash.value)

getAccessToken(e) ==
    LET accessToken == e.BIGCOMMERCE_ACCESS_TOKEN
    IN  IF ~accessToken.set \/ accessToken.value = ""
        THEN Threw(AssertionError("BIGCOMMERCE_ACCESS_TOKEN missing in env"))
        ELSE Returned(accessToken.value)

\* faulty variant: only the presence of the variable is asserted
getChannelIdPresenceOnly(e) ==
    LET channelId == e.BIGCOMMERCE_CHANNEL_ID
    IN  IF ~channelId.set \/ channelId.value = <<>>
        THEN Threw(AssertionError("BIGCOMMERCE_CHANNEL_ID missing in env"))
        ELSE Returned(parseInt(channelId.value).value)

getChannelId(e) ==
    LET channelId == e.BIGCOMMERCE_CHANNEL_ID
    IN  IF ~channelId.set \/ channelId.value = <<>>
        THEN Threw(AssertionError("BIGCOMMERCE_CHANNEL_ID missing in env"))
        ELSE IF ~TruthyNumber(parseInt(channelId.value))
        THEN Threw(AssertionError("BIGCOMMERCE_CHANNEL_ID must be a number"))
        ELSE Returned(parseInt(channelId.value).value)

-----------------------------------------------------------------------------
(* The API client.  Each function below that calls fetch() is modelled up   *)
(* to that call: it throws, or it returns the request fetch() is given.     *)

DefaultHeaders(accessToken) ==
    ("accept" :> "application/json")
        @@ ("content-type" :> "application/json")
        @@ ("x-auth-token" :> accessToken)

NoOptions == [headers |-> Undefined, method |-> Undefined, body |-> Undefined]

\* fetch(url, { headers: {defaults, ...headers}, ...rest }); fetch's method defaults to GET
bigcommerce(e, path, options) ==
    LET headers == IF options.headers.defined THEN options.headers.value ELSE <<>>
        apiOrigin == getApiOrigin(e)
        storeHash == getStoreHash(e)
        accessToken == getAccessToken(e)
    IN  IF storeHash.threw THEN storeHash
        ELSE IF accessToken.threw THEN accessToken
        ELSE Returned([url |-> apiOrigin \o "/stores/" \o storeHash.value \o path,
                       headers |-> SpreadObjects(DefaultHeaders(accessToken.value), headers),
                       method |-> IF options.method.defined THEN options.method.value
                                  ELSE "GET",
                       body |-> options.body])

createCategoryTree(e) ==
    LET channelId == getChannelId(e)
    IN  IF channelId.threw THEN channelId
        ELSE bigcommerce(e, "/v3/catalog/trees",
                 [headers |-> Undefined,
                  method |-> Defined("PUT"),
                  body |-> Defined(<<[name |-> "Catalyst catalog tree",
                                      channels |-> <<channelId.value>>]>>)])

getCategoriesByTreeIds(e, treeIds) ==
    bigcommerce(e, "/v3/catalog/trees/categories?tree_id:in=" \o ArrayJoin(treeIds),
                NoOptions)

\* faulty variant: the source category is spread into the new one, category_id included
buildCategoriesForNewTreeSpreading(cats, newTreeId) ==
    IF ~cats.defined
    THEN Threw(TypeError("Cannot read properties of undefined (reading 'map')"))
    ELSE Returned([i \in 1..Len(cats.value) |->
                      [category_id |-> cats.value[i].category_id,
                       name |-> cats.value[i].name,
                       sort_order |-> cats.value[i].sort_order,
                       tree_id |-> newTreeId]])

\* categories.map(({ name, sort_order }) => ({ name, sort_order, tree_id: newTreeId }))
buildCategoriesForNewTree(cats, newTreeId) ==
    IF ~cats.defined
    THEN Threw(TypeError("Cannot read properties of undefined (reading 'map')"))
    ELSE Returned([i \in 1..Len(cats.value) |->
                      [name |-> cats.value[i].name,
                       sort_order |-> cats.value[i].sort_order,
                       tree_id |-> newTreeId]])

createCategories(e, cats) ==
    bigcommerce(e, "/v3/catalog/trees/categories",
                [headers |-> Undefined, method |-> Defined("POST"), body |-> Defined(cats)])

getProductCategoryAssignmentsForCategoryIds(e, categoryIds) ==
    bigcommerce(e,
                "/v3/catalog/products/category-assignments?category_id:in="
                    \o ArrayJoin(categoryIds),
                NoOptions)

\* faulty variant: an assignment that cannot be translated is given category 0, not refused
RemapAssignmentSubstituting(assign, catsMap, createdMap) ==
    LET categoryName == MapGet(catsMap, assign.category_id)
        newCategoryId == IF categoryName = <<>> THEN <<>>
                         ELSE MapGet(createdMap, categoryName[1])
    IN  Returned([product_id |-> assign.product_id,
                  category_id |-> IF newCategoryId = <<>> THEN 0 ELSE newCategoryId[1]])

\* the callback given to productCategoryAssignments.map
RemapAssignment(assign, catsMap, createdMap) ==
    LET categoryName == MapGet(catsMap, assign.category_id)
    IN  IF categoryName = <<>> \/ categoryName[1] = ""
        THEN Threw(PlainError("Stencil category name not found for category ID "
                                  \o ToString(assign.category_id)))
        ELSE LET newCategoryId == MapGet(createdMap, categoryName[1])
             IN  IF newCategoryId = <<>> \/ newCategoryId[1] = 0
                 THEN Threw(PlainError("Catalyst category ID not found for category name "
                                           \o categoryName[1]))
                 ELSE Returned([product_id |-> assign.product_id,
                                category_id |-> newCategoryId[1]])

\* Array.prototype.map calls the callback in index order; the first throw ends it
buildProductCategoryAssignmentsForNewCategories(assignments, catsMap, createdMap) ==
    IF ~assignments.defined
    THEN Threw(TypeError("Cannot read properties of undefined (reading 'map')"))
    ELSE LET xs == assignments.value
             failing == {i \in 1..Len(xs) : RemapAssignment(xs[i], catsMap, createdMap).threw}
         IN  IF failing # {}
             THEN RemapAssignment(xs[CHOOSE i \in failing : \A j \in failing : i <= j],
                                  catsMap, createdMap)
             ELSE Returned([i \in 1..Len(xs) |->
                               RemapAssignment(xs[i], catsMap, createdMap).value])

createProductCategoryAssignments(e, assignments) ==
    bigcommerce(e, "/v3/catalog/products/category-assignments",
                [headers |-> Undefined, method |-> Defined("PUT"),
                 body |-> Defined(assignments)])

getProductChannelAssignments(e) ==
    bigcommerce(e, "/v3/catalog/products/channel-assignments", NoOptions)

\* faulty variant: an assignment already on another channel than 1 keeps its channel
buildProductChannelAssignmentsFromChannelOne(e, assignments) ==
    LET channelId == getChannelId(e)
    IN  IF channelId.threw THEN channelId
        ELSE IF ~assignments.defined
        THEN Threw(TypeError("Cannot read properties of undefined (reading 'map')"))
        ELSE Returned([i \in 1..Len(assignments.value) |->
                          [product_id |-> assignments.value[i].product_id,
                           channel_id |-> IF assignments.value[i].channel_id = 1
                                          THEN channelId.value
                                          ELSE assignments.value[i].channel_id]])

buildProductChannelAssignmentsForNewChannel(e, assignments) ==
    LET channelId == getChannelId(e)
    IN  IF channelId.threw THEN channelId
        ELSE IF ~assignments.defined
        THEN Threw(TypeError("Cannot read properties of undefined (reading 'map')"))
        ELSE Returned([i \in 1..Len(assignments.value) |->
                          [product_id |-> assignments.value[i].product_id,
                           channel_id |-> channelId.value]])

createProductChannelAssignments(e, assignments) ==
    bigcommerce(e, "/v3/catalog/products/channel-assignments",
                [headers |-> Undefined, method |-> Defined("PUT"),
                 body |-> Defined(assignments)])

\* new Map(categories.map((cat) => [cat.category_id, cat.name]))
BuildCategoriesMap(cats) ==
    NewMap([i \in 1..Len(cats) |-> <<cats[i].category_id, cats[i].name>>])

\* new Map(createdCategories.map((cat) => [cat.name, cat.category_id]))
BuildCreatedCategoriesMap(cats) ==
    NewMap([i \in 1..Len(cats) |-> <<cats[i].name, cats[i].category_id>>])

-----------------------------------------------------------------------------
(* The run: process state, the remote API, the top-level statements *)

NoResponse == [arrived |-> FALSE, failed |-> FALSE, status |-> 0,
               body |-> [kind |-> "invalid", data |-> Undefined]]

NoCall == [fn |-> "none", done |-> FALSE, args |-> <<>>, result |-> Returned(NoValue)]

\* values of the environment variables
StoreHashValues == {EnvUnset, EnvValue(""), EnvValue("abc123")}
AccessTokenValues == {EnvUnset, EnvValue(""), EnvValue("token")}
ApiOriginValues == {EnvUnset, EnvValue(""), EnvValue("http://localhost:8080")}
ChannelIdValues ==
    {EnvUnsetChars, EnvValue(<<>>), EnvValue(<<"0">>), EnvValue(<<"x">>),
     EnvValue(<<"2">>)}

\* the environments a run is started with: the API origin is left to its default
Environments ==
    [BIGCOMMERCE_API_ORIGIN : {EnvUnset},
     BIGCOMMERCE_STORE_HASH : StoreHashValues,
     BIGCOMMERCE_ACCESS_TOKEN : AccessTokenValues,
     BIGCOMMERCE_CHANNEL_ID : ChannelIdValues]

\* what the remote API may answer
Statuses == {200, 500}
Is2xx(status) == status \in 200..299

TreeData == SeqsUpTo({[id |-> 5]}, 1)
CategoryData ==
    SeqsUpTo([category_id : {1, 2}, name : {"", "A"}, sort_order : {0}], MaxLen)
CreatedCategoryData ==
    SeqsUpTo([category_id : {0, 10, 11}, name : {"A"}, sort_order : {0}], MaxLen)
ProductCategoryAssignmentData ==
    SeqsUpTo([product_id : {7}, category_id : {1, 2}], MaxLen)
ProductChannelAssignmentData ==
    SeqsUpTo([product_id : {7}, channel_id : {1, 3}], MaxChannelLen)

DataFor(stage) ==
    CASE stage = "createCategoryTree" -> TreeData
      [] stage = "getCategoriesByTreeIds" -> CategoryData
      [] stage = "createCategories" -> CreatedCategoryData
      [] stage = "getProductCategoryAssignmentsForCategoryIds" ->
            ProductCategoryAssignmentData
      [] stage = "getProductChannelAssignments" -> ProductChannelAssignmentData
      [] OTHER -> {}

\* a body that is not JSON, the JSON null, an object without data, an object with data
Bodies(stage) ==
    {[kind |-> "invalid", data |-> Undefined],
     [kind |-> "object", data |-> Undefined]}
        \cup (IF DataFor(stage) = {} THEN {}
              ELSE {[kind |-> "null", data |-> Undefined]})
        \cup {[kind |-> "object", data |-> Defined(d)] : d \in DataFor(stage)}

Stages ==
    <<"createCategoryTree", "getCategoriesByTreeIds", "createCategories",
      "getProductCategoryAssignmentsForCategoryIds", "createProductCategoryAssignments",
      "getProductChannelAssignments", "createProductChannelAssignments">>

Init ==
    /\ env \in Environments
    /\ pc = "start"
    /\ error = NoError
    /\ requests = <<>>
    /\ inflight = {}
    /\ response = NoResponse
    /\ remote = {}
    /\ newTree = Undefined
    /\ categories = Undefined
    /\ createdCategories = Undefined
    /\ productCategoryAssignments = Undefined
    /\ categoriesMap = <<>>
    /\ createdCategoriesMap = <<>>
    /\ productChannelAssignments = Undefined
    /\ unit = NoCall

\* faulty variant: the error is caught and the writes already made are deleted
AbortWithRollback(err) ==
    /\ pc' = "aborted"
    /\ error' = err
    /\ requests' = IF requests = <<>> THEN requests
                   ELSE Append(requests, [requests[1] EXCEPT !.method = "DELETE",
                                                             !.body = Undefined])
    /\ inflight' = inflight

\* nothing catches: the rejection reaches the top level and the process ends
Abort(err) ==
    /\ pc' = "aborted"
    /\ error' = err
    /\ requests' = requests
    /\ inflight' = inflight

\* faulty variant: the write of the category assignments is not awaited, so the next
\* statement's fetch is made while it is outstanding
FetchUnawaited(request, stage) ==
    IF stage = "createProductCategoryAssignments"
    THEN /\ pc' = "getProductChannelAssignments"
         /\ error' = error
         /\ requests' = requests \o <<request, getProductChannelAssignments(env).value>>
         /\ inflight' = inflight \cup {Len(requests) + 1, Len(requests) + 2}
    ELSE /\ pc' = stage
         /\ error' = error
         /\ requests' = Append(requests, request)
         /\ inflight' = inflight \cup {Len(requests) + 1}

\* fetch(...) is called and the caller suspends on its promise
Fetch(request, stage) ==
    /\ pc' = stage
    /\ error' = error
    /\ requests' = Append(requests, request)
    /\ inflight' = inflight \cup {Len(requests) + 1}

\* an async function that throws or reaches its fetch
Call(result, stage) ==
    IF result.threw THEN Abort(result.error) ELSE Fetch(result.value, stage)

\* faulty variant: a response whose status is not 2xx is refused
AwaitedOk(r) ==
    IF r.failed THEN Threw(TypeError("fetch failed"))
    ELSE IF ~Is2xx(r.status) THEN Threw(PlainError("HTTP " \o ToString(r.status)))
    ELSE Returned(r)

\* await bigcommerce(...): the promise of fetch() settles
Awaited(r) ==
    IF r.failed THEN Threw(TypeError("fetch failed")) ELSE Returned(r)

\* const { data } = await (response.json())
ReadData(r) ==
    IF Awaited(r).threw THEN Awaited(r)
    ELSE IF r.body.kind = "invalid"
    THEN Threw(SyntaxError("Unexpected token in JSON"))
    ELSE IF r.body.kind = "null"
    THEN Threw(TypeError("Cannot destructure property 'data' of null"))
    ELSE Returned(r.body.data)

\* newTree[0].id
FirstTreeId(tree) ==
    IF ~tree.defined
    THEN Threw(TypeError("Cannot read properties of undefined (reading '0')"))
    ELSE IF tree.value = <<>>
    THEN Threw(TypeError("Cannot read properties of undefined (reading 'id')"))
    ELSE Returned(tree.value[1].id)

\* categories.map((cat) => cat.category_id)
CategoryIds(cats) ==
    IF ~cats.defined
    THEN Threw(TypeError("Cannot read properties of undefined (reading 'map')"))
    ELSE Returned([i \in 1..Len(cats.value) |-> cats.value[i].category_id])

(* The remote API answers a request that reached it, with some status and   *)
(* some body; a write that reached it is recorded in remote.                *)
ServerRespond ==
    /\ response = NoResponse
    /\ \E i \in inflight, status \in Statuses, body \in Bodies(pc) :
          /\ response' = [arrived |-> TRUE, failed |-> FALSE, status |-> status,
                          body |-> body]
          /\ inflight' = inflight \ {i}
          /\ remote' = IF requests[i].method # "GET"
                       THEN remote \cup {[method |-> requests[i].method,
                                          url |-> requests[i].url]}
                       ELSE remote
    /\ UNCHANGED <<env, pc, error, requests, newTree, categories, createdCategories,
                   productCategoryAssignments, categoriesMap, createdCategoriesMap,
                   productChannelAssignments, unit>>

\* the request does not complete: fetch() rejects
NetworkFailure ==
    /\ response = NoResponse
    /\ \E i \in inflight :
          /\ response' = [NoResponse EXCEPT !.arrived = TRUE, !.failed = TRUE]
          /\ inflight' = inflight \ {i}
    /\ UNCHANGED <<env, pc, error, requests, remote, newTree, categories,
                   createdCategories, productCategoryAssignments, categoriesMap,
                   createdCategoriesMap, productChannelAssignments, unit>>

\* lines 184-185: createCategoryTree() up to its fetch
Start ==
    /\ pc = "start"
    /\ Call(createCategoryTree(env), "createCategoryTree")
    /\ UNCHANGED <<env, response, remote, newTree, categories, createdCategories,
                   productCategoryAssignments, categoriesMap, createdCategoriesMap,
                   productChannelAssignments, unit>>

\* lines 185-189: newTree is bound, getCategoriesByTreeIds([1]) reaches its fetch
AfterCreateCategoryTree ==
    /\ pc = "createCategoryTree"
    /\ response.arrived
    /\ response' = NoResponse
    /\ LET data == ReadData(response)
       IN  IF data.threw
           THEN Abort(data.error) /\ newTree' = newTree
           ELSE /\ newTree' = data.value
                /\ Call(getCategoriesByTreeIds(env, <<1>>), "getCategoriesByTreeIds")
    /\ UNCHANGED <<env, remote, categories, createdCategories,
                   productCategoryAssignments, categoriesMap, createdCategoriesMap,
                   productChannelAssignments, unit>>

\* lines 189-201: categories is bound, the new tree's categories are built and posted
AfterGetCategoriesByTreeIds ==
    /\ pc = "getCategoriesByTreeIds"
    /\ response.arrived
    /\ response' = NoResponse
    /\ LET data == ReadData(response)
       IN  IF data.threw
           THEN Abort(data.error) /\ categories' = categories
           ELSE /\ categories' = data.value
                /\ LET newTreeId == FirstTreeId(newTree)
                       built == buildCategoriesForNewTree(data.value, newTreeId.value)
                   IN  IF newTreeId.threw THEN Abort(newTreeId.error)
                       ELSE IF built.threw THEN Abort(built.error)
                       ELSE Call(createCategories(env, built.value), "createCategories")
    /\ UNCHANGED <<env, remote, newTree, createdCategories,
                   productCategoryAssignments, categoriesMap, createdCategoriesMap,
                   productChannelAssignments, unit>>

\* lines 200-208: createdCategories is bound, the source categories' assignments are asked for
AfterCreateCategories ==
    /\ pc = "createCategories"
    /\ response.arrived
    /\ response' = NoResponse
    /\ LET data == ReadData(response)
       IN  IF data.threw
           THEN Abort(data.error) /\ createdCategories' = createdCategories
           ELSE /\ createdCategories' = data.value
                /\ LET ids == CategoryIds(categories)
                   IN  IF ids.threw THEN Abort(ids.error)
                       ELSE Call(getProductCategoryAssignmentsForCategoryIds(env, ids.value),
                                 "getProductCategoryAssignmentsForCategoryIds")
    /\ UNCHANGED <<env, remote, newTree, categories,
                   productCategoryAssignments, categoriesMap, createdCategoriesMap,
                   productChannelAssignments, unit>>

\* lines 205-229: the assignments are bound, the two maps are built, the
\* assignments are remapped and written
AfterGetProductCategoryAssignments ==
    /\ pc = "getProductCategoryAssignmentsForCategoryIds"
    /\ response.arrived
    /\ response' = NoResponse
    /\ LET data == ReadData(response)
           ids == CategoryIds(categories)
           built == buildProductCategoryAssignmentsForNewCategories(
                        data.value,
                        BuildCategoriesMap(categories.value),
                        BuildCreatedCategoriesMap(createdCategories.value))
       IN  IF data.threw
           THEN /\ Abort(data.error)
                /\ UNCHANGED <<productCategoryAssignments, categoriesMap,
                               createdCategoriesMap>>
           ELSE /\ productCategoryAssignments' = data.value
                /\ IF ids.threw
                   THEN /\ Abort(ids.error)
                        /\ UNCHANGED <<categoriesMap, createdCategoriesMap>>
                   ELSE /\ categoriesMap' = BuildCategoriesMap(categories.value)
                        /\ IF ~createdCategories.defined
                           THEN /\ Abort(TypeError(
                                       "Cannot read properties of undefined (reading 'map')"))
                                /\ createdCategoriesMap' = createdCategoriesMap
                           ELSE /\ createdCategoriesMap' =
                                       BuildCreatedCategoriesMap(createdCategories.value)
                                /\ IF built.threw THEN Abort(built.error)
                                   ELSE Call(createProductCategoryAssignments(env, built.value),
                                             "createProductCategoryAssignments")
    /\ UNCHANGED <<env, remote, newTree, categories, createdCategories,
                   productChannelAssignments, unit>>

\* lines 229-234: the write's response is not read; the channel assignments are asked for
AfterCreateProductCategoryAssignments ==
    /\ pc = "createProductCategoryAssignments"
    /\ response.arrived
    /\ response' = NoResponse
    /\ IF Awaited(response).threw
       THEN Abort(Awaited(response).error)
       ELSE Call(getProductChannelAssignments(env), "getProductChannelAssignments")
    /\ UNCHANGED <<env, remote, newTree, categories, createdCategories,
                   productCategoryAssignments, categoriesMap, createdCategoriesMap,
                   productChannelAssignments, unit>>

\* lines 233-243: the channel assignments are bound, rewritten and written
AfterGetProductChannelAssignments ==
    /\ pc = "getProductChannelAssignments"
    /\ response.arrived
    /\ response' = NoResponse
    /\ LET data == ReadData(response)
           built == buildProductChannelAssignmentsForNewChannel(env, data.value)
       IN  IF data.threw
           THEN Abort(data.error) /\ productChannelAssignments' = productChannelAssignments
           ELSE /\ productChannelAssignments' = data.value
                /\ IF built.threw THEN Abort(built.error)
                   ELSE Call(createProductChannelAssignments(env, built.value),
                             "createProductChannelAssignments")
    /\ UNCHANGED <<env, remote, newTree, categories, createdCategories,
                   productCategoryAssignments, categoriesMap, createdCategoriesMap, unit>>

\* lines 243-244: the last write's response is not read; the script ends
AfterCreateProductChannelAssignments ==
    /\ pc = "createProductChannelAssignments"
    /\ response.arrived
    /\ response' = NoResponse
    /\ IF Awaited(response).threw
       THEN Abort(Awaited(response).error)
       ELSE /\ pc' = "done"
            /\ UNCHANGED <<error, requests, inflight>>
    /\ UNCHANGED <<env, remote, newTree, categories, createdCategories,
                   productCategoryAssignments, categoriesMap, createdCategoriesMap,
                   productChannelAssignments, unit>>

Next ==
    \/ Start
    \/ ServerRespond
    \/ NetworkFailure
    \/ AfterCreateCategoryTree
    \/ AfterGetCategoriesByTreeIds
    \/ AfterCreateCategories
    \/ AfterGetProductCategoryAssignments
    \/ AfterCreateProductCategoryAssignments
    \/ AfterGetProductChannelAssignments
    \/ AfterCreateProductChannelAssignments

Spec == Init /\ [][Next]_vars

-----------------------------------------------------------------------------
(* SpecUnit: each function applied once to inputs drawn from bounded sets *)

IdChars == {"0", "7", "+", "-", " ", "x"}
ChannelIdStrings == {EnvUnsetChars} \cup {EnvValue(str) : str \in SeqsUpTo(IdChars, MaxIdLen)}

ValidEnv ==
    [BIGCOMMERCE_API_ORIGIN |-> EnvUnset,
     BIGCOMMERCE_STORE_HASH |-> EnvValue("abc123"),
     BIGCOMMERCE_ACCESS_TOKEN |-> EnvValue("token"),
     BIGCOMMERCE_CHANNEL_ID |-> EnvValue(<<"7">>)]

UnitEnvironments ==
    [BIGCOMMERCE_API_ORIGIN : ApiOriginValues,
     BIGCOMMERCE_STORE_HASH : StoreHashValues,
     BIGCOMMERCE_ACCESS_TOKEN : AccessTokenValues,
     BIGCOMMERCE_CHANNEL_ID : ChannelIdStrings]

ClientEnvironments == {e \in UnitEnvironments : e.BIGCOMMERCE_CHANNEL_ID = EnvValue(<<"7">>)}
ChannelEnvironments ==
    {[ValidEnv EXCEPT !.BIGCOMMERCE_CHANNEL_ID = c] : c \in ChannelIdStrings}

\* objects with some of the keys of K, each with a value of V
Objects(K, V) == UNION {[D -> V] : D \in SUBSET K}

UnitPaths == {"/v3/catalog/trees", "/v3/catalog/products/channel-assignments"}
UnitHeaders == Objects({"accept", "x-auth-token", "x-request-id"}, {"caller"})
UnitOptions ==
    [headers : {Undefined} \cup {Defined(h) : h \in UnitHeaders},
     method : {Undefined, Defined("PUT")},
     body : {Undefined, Defined(<<>>)}]

UnitCategories ==
    SeqsUpTo([category_id : {1, 2}, name : {"", "A", "B"}, sort_order : {0, 1}], MaxLen)
UnitTreeIds == {5, 6}
UnitCategoriesMaps == Objects({1, 2}, {"", "A", "B"})
UnitCreatedCategoriesMaps == Objects({"", "A", "B"}, {0, 10, 11})
UnitCategoryAssignments ==
    SeqsUpTo([product_id : {7, 8}, category_id : {1, 2, 999}], MaxLen)
UnitChannelAssignments ==
    SeqsUpTo([product_id : {7, 8}, channel_id : {1, 3}], MaxLen)

Pending == Returned(NoValue)

UnitCall(fn, args) == [fn |-> fn, done |-> FALSE, args |-> args, result |-> Pending]

UnitInit ==
    /\ pc = "unit"
    /\ error = NoError
    /\ requests = <<>>
    /\ inflight = {}
    /\ response = NoResponse
    /\ remote = {}
    /\ newTree = Undefined
    /\ categories = Undefined
    /\ createdCategories = Undefined
    /\ productCategoryAssignments = Undefined
    /\ categoriesMap = <<>>
    /\ createdCategoriesMap = <<>>
    /\ productChannelAssignments = Undefined
    /\ \/ /\ env \in ChannelEnvironments
          /\ unit = UnitCall("getChannelId", <<>>)
       \/ /\ env \in UnitEnvironments
          /\ unit = UnitCall("createCategoryTree", <<>>)
       \/ /\ env \in ClientEnvironments
          /\ \E path \in UnitPaths, options \in UnitOptions :
                unit = UnitCall("bigcommerce", [path |-> path, options |-> options])
       \/ /\ env = ValidEnv
          /\ \E cats \in UnitCategories, newTreeId \in UnitTreeIds :
                unit = UnitCall("buildCategoriesForNewTree",
                                [categories |-> cats, newTreeId |-> newTreeId])
       \/ /\ env = ValidEnv
          /\ \E assignments \in UnitCategoryAssignments, catsMap \in UnitCategoriesMaps,
                createdMap \in UnitCreatedCategoriesMaps :
                unit = UnitCall("buildProductCategoryAssignmentsForNewCategories",
                                [productCategoryAssignments |-> assignments,
                                 categoriesMap |-> catsMap,
                                 createdCategoriesMap |-> createdMap])
       \/ /\ env \in ChannelEnvironments
          /\ \E assignments \in UnitChannelAssignments :
                unit = UnitCall("buildProductChannelAssignmentsForNewChannel",
                                [productChannelAssignments |-> assignments])

Apply(fn, result) ==
    /\ unit.fn = fn
    /\ ~unit.done
    /\ unit' = [unit EXCEPT !.done = TRUE, !.result = result]
    /\ UNCHANGED <<env, runVars>>

UnitGetChannelId == Apply("getChannelId", getChannelId(env))

UnitCreateCategoryTree == Apply("createCategoryTree", createCategoryTree(env))

UnitBigcommerce ==
    Apply("bigcommerce", bigcommerce(env, unit.args.path, unit.args.options))

UnitBuildCategoriesForNewTree ==
    Apply("buildCategoriesForNewTree",
          buildCategoriesForNewTree(Defined(unit.args.categories), unit.args.newTreeId))

UnitBuildProductCategoryAssignmentsForNewCategories ==
    Apply("buildProductCategoryAssignmentsForNewCategories",
          buildProductCategoryAssignmentsForNewCategories(
              Defined(unit.args.productCategoryAssignments),
              unit.args.categoriesMap, unit.args.createdCategoriesMap))

UnitBuildProductChannelAssignmentsForNewChannel ==
    Apply("buildProductChannelAssignmentsForNewChannel",
          buildProductChannelAssignmentsForNewChannel(
              env, Defined(unit.args.productChannelAssignments)))

UnitNext ==
    \/ UnitGetChannelId
    \/ UnitCreateCategoryTree
    \/ UnitBigcommerce
    \/ UnitBuildCategoriesForNewTree
    \/ UnitBuildProductCategoryAssignmentsForNewCategories
    \/ UnitBuildProductChannelAssignmentsForNewChannel

SpecUnit == UnitInit /\ [][UnitNext]_vars

-----------------------------------------------------------------------------
(* Properties of the functions, checked under SpecUnit *)

Applied(fn) == unit.fn = fn /\ unit.done

\* every assignment's category_id is a key of the old-id -> name map and the
\* name found is a key of the name -> new-id map
C1_ValidInput ==
    \A i \in 1..Len(unit.args.productCategoryAssignments) :
        LET id == unit.args.productCategoryAssignments[i].category_id
        IN  /\ id \in DOMAIN unit.args.categoriesMap
            /\ unit.args.categoriesMap[id] \in DOMAIN unit.args.createdCategoriesMap

\* C1: buildProductCategoryAssignmentsForNewCategories is total over valid input:
\* when every category_id is a key of the old-id -> name map and every name found is
\* a key of the name -> new-id map, it throws nothing and returns the list, in order,
\* of {product_id, category_id: nameToNewId[oldIdToName[category_id]]}.
C1_TotalOverValidInput ==
    (Applied("buildProductCategoryAssignmentsForNewCategories") /\ C1_ValidInput)
        => /\ ~unit.result.threw
           /\ unit.result.value =
                 [i \in 1..Len(unit.args.productCategoryAssignments) |->
                     [product_id |-> unit.args.productCategoryAssignments[i].product_id,
                      category_id |->
                          unit.args.createdCategoriesMap[
                              unit.args.categoriesMap[
                                  unit.args.productCategoryAssignments[i].category_id]]]]

\* the shape of a BIGCOMMERCE_CHANNEL_ID value: leading blanks, a sign, a run of digits
C3_Blanks(str) ==
    CHOOSE k \in 0..Len(str) :
        /\ \A i \in 1..k : str[i] = " "
        /\ k < Len(str) => str[k + 1] # " "

C3_Sign(str) ==
    LET k == C3_Blanks(str)
    IN  IF k < Len(str) /\ str[k + 1] \in {"+", "-"} THEN 1 ELSE 0

C3_DigitCount(str) ==
    LET from == C3_Blanks(str) + C3_Sign(str)
    IN  CHOOSE n \in 0..(Len(str) - from) :
            /\ \A i \in 1..n : IsDigit(str[from + i])
            /\ from + n < Len(str) => ~IsDigit(str[from + n + 1])

C3_Integer(str) ==
    LET from == C3_Blanks(str) + C3_Sign(str)
        n == C3_DigitCount(str)
        v[i \in 0..n] == IF i = 0 THEN 0 ELSE 10 * v[i - 1] + DigitValue(str[from + i])
    IN  IF C3_Sign(str) = 1 /\ str[C3_Blanks(str) + 1] = "-" THEN 0 - v[n] ELSE v[n]

\* unset, empty, not parseable as a base-10 integer, or parsing to 0
C3_Rejected(channelId) ==
    \/ ~channelId.set
    \/ channelId.value = <<>>
    \/ C3_DigitCount(channelId.value) = 0
    \/ C3_Integer(channelId.value) = 0

C3_ConfigurationError(result) ==
    /\ result.threw
    /\ result.error.type = "AssertionError"
    /\ result.error.message \in {"BIGCOMMERCE_CHANNEL_ID missing in env",
                                 "BIGCOMMERCE_CHANNEL_ID must be a number"}

\* C3: when BIGCOMMERCE_CHANNEL_ID is unset, empty, not parseable as a base-10 integer
\* or parses to 0, getChannelId throws a configuration error and createCategoryTree,
\* the run's first statement, throws it before reaching its fetch; otherwise
\* getChannelId returns the integer parsed, which createCategoryTree sends.
C3_ChannelIdChecked ==
    /\ Applied("getChannelId") =>
          IF C3_Rejected(env.BIGCOMMERCE_CHANNEL_ID)
          THEN C3_ConfigurationError(unit.result)
          ELSE unit.result = Returned(C3_Integer(env.BIGCOMMERCE_CHANNEL_ID.value))
    /\ Applied("createCategoryTree") =>
          IF C3_Rejected(env.BIGCOMMERCE_CHANNEL_ID)
          THEN C3_ConfigurationError(unit.result)
          ELSE \/ unit.result.threw /\ ~C3_ConfigurationError(unit.result)
               \/ /\ ~unit.result.threw
                  /\ unit.result.value.body.value[1].channels =
                         <<C3_Integer(env.BIGCOMMERCE_CHANNEL_ID.value)>>

\* C3 witness: a value that parses to 0 has been rejected before the fetch
C3_Witness ==
    /\ Applied("createCategoryTree")
    /\ env.BIGCOMMERCE_CHANNEL_ID = EnvValue(<<"0">>)
    /\ env.BIGCOMMERCE_STORE_HASH = EnvValue("abc123")
    /\ unit.result = Threw(AssertionError("BIGCOMMERCE_CHANNEL_ID must be a number"))

\* C4: the output of buildProductChannelAssignmentsForNewChannel has the input's
\* length and order, keeps each product_id, and every channel_id is the configured
\* target channel whatever the input's channel_id was.
C4_ChannelRewritten ==
    Applied("buildProductChannelAssignmentsForNewChannel") =>
        LET input == unit.args.productChannelAssignments
            target == C3_Integer(env.BIGCOMMERCE_CHANNEL_ID.value)
        IN  IF C3_Rejected(env.BIGCOMMERCE_CHANNEL_ID)
            THEN unit.result.threw
            ELSE /\ ~unit.result.threw
                 /\ Len(unit.result.value) = Len(input)
                 /\ \A i \in 1..Len(input) :
                       /\ unit.result.value[i].product_id = input[i].product_id
                       /\ unit.result.value[i].channel_id = target

\* C4 witness: two assignments on different channels, neither the target, were rewritten
C4_Witness ==
    /\ Applied("buildProductChannelAssignmentsForNewChannel")
    /\ ~unit.result.threw
    /\ Len(unit.args.productChannelAssignments) = 2
    /\ unit.args.productChannelAssignments[1].channel_id = 1
    /\ unit.args.productChannelAssignments[2].channel_id = 3
    /\ unit.args.productChannelAssignments[1].product_id
           # unit.args.productChannelAssignments[2].product_id
    /\ unit.result.value[1].channel_id = 7

\* C5: the output of buildCategoriesForNewTree has the input's length, every element's
\* tree_id is newTreeId, each element carries its input element's name and sort_order,
\* and no element has a category_id field.
C5_CategoriesRebuilt ==
    Applied("buildCategoriesForNewTree") =>
        LET input == unit.args.categories
        IN  /\ ~unit.result.threw
            /\ Len(unit.result.value) = Len(input)
            /\ \A i \in 1..Len(input) :
                  /\ unit.result.value[i].tree_id = unit.args.newTreeId
                  /\ unit.result.value[i].name = input[i].name
                  /\ unit.result.value[i].sort_order = input[i].sort_order
                  /\ "category_id" \notin DOMAIN unit.result.value[i]

\* C5 witness: two categories differing in name and sort_order were rebuilt
C5_Witness ==
    /\ Applied("buildCategoriesForNewTree")
    /\ Len(unit.args.categories) = 2
    /\ unit.args.categories[1].name # unit.args.categories[2].name
    /\ unit.args.categories[1].sort_order # unit.args.categories[2].sort_order
    /\ Len(unit.result.value) = 2

\* C7: the client issues one request to {origin}/stores/{storeHash}{path}, the origin
\* being https://api.bigcommerce.com when BIGCOMMERCE_API_ORIGIN is unset, with the
\* headers accept, content-type and x-auth-token: {accessToken}, each replaced by the
\* caller's header of the same key; without caller headers x-auth-token is the token.
C7_ClientRequest ==
    (Applied("bigcommerce") /\ ~unit.result.threw) =>
        LET request == unit.result.value
            origin == env.BIGCOMMERCE_API_ORIGIN
            caller == IF unit.args.options.headers.defined
                      THEN unit.args.options.headers.value ELSE <<>>
            defaults == {"accept", "content-type", "x-auth-token"}
        IN  /\ ~origin.set =>
                  request.url = "https://api.bigcommerce.com/stores/"
                                    \o env.BIGCOMMERCE_STORE_HASH.value \o unit.args.path
            /\ (origin.set /\ origin.value # "") =>
                  request.url = origin.value \o "/stores/"
                                    \o env.BIGCOMMERCE_STORE_HASH.value \o unit.args.path
            /\ DOMAIN request.headers = defaults \cup DOMAIN caller
            /\ \A k \in DOMAIN caller : request.headers[k] = caller[k]
            /\ "accept" \notin DOMAIN caller => request.headers["accept"] = "application/json"
            /\ "content-type" \notin DOMAIN caller
                  => request.headers["content-type"] = "application/json"
            /\ "x-auth-token" \notin DOMAIN caller
                  => request.headers["x-auth-token"] = env.BIGCOMMERCE_ACCESS_TOKEN.value

\* C7 witness: a request was built whose caller replaced x-auth-token and added a header
C7_Witness ==
    /\ Applied("bigcommerce")
    /\ ~unit.result.threw
    /\ unit.args.options.headers.defined
    /\ DOMAIN unit.args.options.headers.value = {"x-auth-token", "x-request-id"}
    /\ unit.result.value.headers["x-auth-token"] = "caller"
    /\ ~env.BIGCOMMERCE_API_ORIGIN.set

-----------------------------------------------------------------------------
(* Properties of the run, checked under Spec *)

Last(S) == CHOOSE x \in S : \A y \in S : y <= x
First(S) == CHOOSE x \in S : \A y \in S : x <= y

\* the remap has run: the assignments were fetched and both category lists are arrays
RemapRan ==
    /\ productCategoryAssignments.defined
    /\ categories.defined
    /\ createdCategories.defined

\* positions of the source categories with this id, of the created ones with this name
SourceWithId(id) ==
    {j \in 1..Len(categories.value) : categories.value[j].category_id = id}
CreatedWithName(name) ==
    {j \in 1..Len(createdCategories.value) : createdCategories.value[j].name = name}

\* the name the i-th fetched assignment's category has in the source tree
OldName(i) ==
    categories.value[Last(SourceWithId(productCategoryAssignments.value[i].category_id))].name

\* the i-th assignment's category_id is no key of the old-id -> name map
IdAbsent(i) == SourceWithId(productCategoryAssignments.value[i].category_id) = {}
\* its name is no key of the name -> new-id map
NameAbsent(i) == ~IdAbsent(i) /\ CreatedWithName(OldName(i)) = {}

\* the lookup of the i-th assignment's name, or of its new id, gives nothing usable
NameLookupFails(i) == IdAbsent(i) \/ OldName(i) = ""
IdLookupFails(i) ==
    /\ ~NameLookupFails(i)
    /\ \/ CreatedWithName(OldName(i)) = {}
       \/ createdCategories.value[Last(CreatedWithName(OldName(i)))].category_id = 0

Refused == {i \in 1..Len(productCategoryAssignments.value) :
               NameLookupFails(i) \/ IdLookupFails(i)}

WriteOfCategoryAssignments(r) ==
    /\ r.method = "PUT"
    /\ r.url = getApiOrigin(env) \o "/stores/" \o env.BIGCOMMERCE_STORE_HASH.value
                   \o "/v3/catalog/products/category-assignments"

\* C2: when a fetched assignment references a category_id absent from the old-id ->
\* name map, or a name absent from the name -> new-id map, the remap throws an Error
\* naming the id (or the name) of the first assignment it could not translate, the
\* run aborts there, and the PUT of the category assignments and every later request
\* are never issued.
C2_UntranslatableAborts ==
    (RemapRan /\ \E i \in 1..Len(productCategoryAssignments.value) :
                     IdAbsent(i) \/ NameAbsent(i))
        => /\ pc = "aborted"
           /\ error.type = "Error"
           /\ error.message =
                 (IF NameLookupFails(First(Refused))
                  THEN "Stencil category name not found for category ID "
                           \o ToString(productCategoryAssignments.value[First(Refused)]
                                           .category_id)
                  ELSE "Catalyst category ID not found for category name "
                           \o OldName(First(Refused)))
           /\ Len(requests) = 4
           /\ \A k \in 1..Len(requests) : ~WriteOfCategoryAssignments(requests[k])

\* C2 witness: the first assignment translates, the second names an unknown category
\* id, and the run has aborted with the error that names it
C2_Witness ==
    /\ RemapRan
    /\ Len(productCategoryAssignments.value) = 2
    /\ Refused = {2}
    /\ IdAbsent(2)
    /\ pc = "aborted"
    /\ error.message = "Stencil category name not found for category ID 2"

StageOf(p) == CHOOSE k \in 1..Len(Stages) : Stages[k] = p
Suspended == \E k \in 1..Len(Stages) : Stages[k] = pc
NextStage(p) == IF StageOf(p) = Len(Stages) THEN "done" ELSE Stages[StageOf(p) + 1]

\* stages whose continuation reads the response's body
ReadsBody(p) == p \notin {"createProductCategoryAssignments", "createProductChannelAssignments"}

\* C6: the first error at any stage ends the run at once: the step that raises it
\* issues no request, no step follows it, no request other than the seven of the
\* pipeline is ever made, and the writes that reached the remote store stay.
C6_FirstErrorTerminates ==
    /\ [][/\ pc # "aborted"
          /\ pc' = "aborted" =>
                /\ error' # NoError
                /\ requests' = requests
                /\ remote' = remote
                /\ inflight' = {}
          /\ pc' # "aborted" => error' = NoError
          /\ (Suspended /\ response.arrived /\ response' = NoResponse
                /\ (response.failed \/ (ReadsBody(pc) /\ response.body.kind = "invalid")))
                => pc' = "aborted"]_vars
    /\ [](\A k \in 1..Len(requests) : requests[k].method # "DELETE")

\* C6 witness: the run aborted on a reference-integrity error after the tree and the
\* categories had been written
C6_Witness ==
    /\ pc = "aborted"
    /\ error.type = "Error"
    /\ Cardinality(remote) = 2
    /\ Len(requests) = 4

RequestUrl(path) ==
    getApiOrigin(env) \o "/stores/" \o env.BIGCOMMERCE_STORE_HASH.value \o path

\* the seven requests of a run, given what the earlier responses carried
ExpectedRequest(k) ==
    CASE k = 1 -> [method |-> "PUT", url |-> RequestUrl("/v3/catalog/trees")]
      [] k = 2 -> [method |-> "GET",
                   url |-> RequestUrl("/v3/catalog/trees/categories?tree_id:in=1")]
      [] k = 3 -> [method |-> "POST", url |-> RequestUrl("/v3/catalog/trees/categories")]
      [] k = 4 -> [method |-> "GET",
                   url |-> RequestUrl(
                       "/v3/catalog/products/category-assignments?category_id:in="
                           \o ArrayJoin([j \in 1..Len(categories.value) |->
                                            categories.value[j].category_id]))]
      [] k = 5 -> [method |-> "PUT",
                   url |-> RequestUrl("/v3/catalog/products/category-assignments")]
      [] k = 6 -> [method |-> "GET",
                   url |-> RequestUrl("/v3/catalog/products/channel-assignments")]
      [] k = 7 -> [method |-> "PUT",
                   url |-> RequestUrl("/v3/catalog/products/channel-assignments")]

\* the body of the k-th request, built from the data of the responses before it
ExpectedBody(k) ==
    CASE k = 3 -> Defined([j \in 1..Len(categories.value) |->
                              [name |-> categories.value[j].name,
                               sort_order |-> categories.value[j].sort_order,
                               tree_id |-> newTree.value[1].id]])
      [] k = 5 -> Defined([i \in 1..Len(productCategoryAssignments.value) |->
                              [product_id |-> productCategoryAssignments.value[i].product_id,
                               category_id |->
                                   createdCategories.value[
                                       Last(CreatedWithName(OldName(i)))].category_id]])
      [] k = 7 -> Defined([i \in 1..Len(productChannelAssignments.value) |->
                              [product_id |-> productChannelAssignments.value[i].product_id,
                               channel_id |->
                                   C3_Integer(env.BIGCOMMERCE_CHANNEL_ID.value)]])
      [] OTHER -> Undefined

\* C8: the requests are made one at a time, in the fixed order PUT trees, GET
\* categories, POST categories, GET category assignments, PUT category assignments,
\* GET channel assignments, PUT channel assignments; a request is made only once the
\* response to the one before it has arrived; and each carries what the stage before
\* produced.
C8_SequentialFixedOrder ==
    /\ Cardinality(inflight) <= 1
    /\ inflight # {} => (inflight = {Len(requests)} /\ ~response.arrived)
    /\ Len(requests) <= 7
    /\ \A k \in 1..Len(requests) :
          /\ requests[k].method = ExpectedRequest(k).method
          /\ requests[k].url = ExpectedRequest(k).url
          /\ k \in {3, 5, 7} => requests[k].body = ExpectedBody(k)
    /\ Suspended => Len(requests) = StageOf(pc)
    /\ pc = "done" => Len(requests) = 7

\* C8 witness: a run has made all seven requests, with two categories, two category
\* assignments and a channel assignment, and ended
C8_Witness ==
    /\ pc = "done"
    /\ Len(requests) = 7
    /\ Len(requests[3].body.value) = 2
    /\ Len(requests[5].body.value) = 2
    /\ Len(requests[7].body.value) = 1

\* what makes the continuation of stage p throw, given a body that parsed as JSON
ContentThrows(p, body) ==
    CASE p = "createCategoryTree" -> body.kind = "null"
      [] p = "getCategoriesByTreeIds" ->
            \/ body.kind = "null"
            \/ ~newTree.defined
            \/ newTree.value = <<>>
            \/ ~body.data.defined
      [] p = "createCategories" -> body.kind = "null"
      [] p = "getProductCategoryAssignmentsForCategoryIds" ->
            \/ body.kind = "null"
            \/ ~createdCategories.defined
            \/ ~body.data.defined
            \/ \E i \in 1..Len(body.data.value) :
                  LET src == SourceWithId(body.data.value[i].category_id)
                      name == categories.value[Last(src)].name
                      new == CreatedWithName(name)
                  IN  \/ src = {}
                      \/ name = ""
                      \/ new = {}
                      \/ createdCategories.value[Last(new)].category_id = 0
      [] p = "getProductChannelAssignments" -> body.kind = "null" \/ ~body.data.defined
      [] OTHER -> FALSE

\* C9: the status of a response is never looked at: when the continuation of a stage
\* takes a response whose body parses as JSON, the run aborts only if the body's
\* content makes the stage throw, and otherwise goes on to the next stage, whether the
\* status is 2xx or not.
C9_StatusIgnored ==
    [][(Suspended /\ response.arrived /\ ~response.failed
            /\ response.body.kind # "invalid" /\ response' = NoResponse)
        => /\ (pc' = "aborted") = ContentThrows(pc, response.body)
           /\ pc' # "aborted" =>
                 /\ pc' = NextStage(pc)
                 /\ Len(requests') = IF pc' = "done" THEN 7 ELSE StageOf(pc')]_vars

\* C9 witness: the fetch of the categories has been answered with status 500 and a
\* JSON body carrying two categories, which the continuation is about to take
C9_Witness ==
    /\ pc = "getCategoriesByTreeIds"
    /\ newTree.defined
    /\ newTree.value # <<>>
    /\ response.arrived
    /\ response.status = 500
    /\ response.body.data.defined
    /\ Len(response.body.data.value) = 2
    /\ ~ContentThrows(pc, response.body)

\* C10: when two created categories share a name, the name -> new-id map holds only
\* the id of the later one, no error is raised for it, and every assignment whose old
\* category has that name is written with that later id.
C10_LaterDuplicateWins ==
    RemapRan =>
        /\ DOMAIN createdCategoriesMap =
              {createdCategories.value[j].name : j \in 1..Len(createdCategories.value)}
        /\ \A name \in DOMAIN createdCategoriesMap :
              createdCategoriesMap[name] =
                  createdCategories.value[Last(CreatedWithName(name))].category_id
        /\ Refused = {} => Len(requests) >= 5
        /\ Len(requests) >= 5 =>
              \A i \in 1..Len(productCategoryAssignments.value) :
                  requests[5].body.value[i].category_id =
                      createdCategories.value[Last(CreatedWithName(OldName(i)))].category_id

\* C10 witness: two created categories named "A" with ids 10 and 11, and an
\* assignment of a source category named "A" written with id 11
C10_Witness ==
    /\ RemapRan
    /\ Len(createdCategories.value) = 2
    /\ createdCategories.value[1] = [category_id |-> 10, name |-> "A", sort_order |-> 0]
    /\ createdCategories.value[2] = [category_id |-> 11, name |-> "A", sort_order |-> 0]
    /\ Len(requests) >= 5
    /\ Len(requests[5].body.value) >= 1
    /\ requests[5].body.value[1].category_id = 11

====
